---- MODULE Spec2Model ----
(***************************************************************************)
(* The freelance-marketplace backend (backend/app/routes.py, models.py):   *)
(* users, projects, bids and reviews held in a relational store, and the   *)
(* request handlers that read and commit to it.                            *)
(*                                                                         *)
(* Spec     every request runs to completion before the next one starts.   *)
(* SpecConc requests of place_bid and accept_bid are interleaved: each     *)
(*          query and each commit of a handler is one step against the     *)
(*          shared store.  A query sees the rows committed so far, and a   *)
(*          commit writes what its handler assigned; the models declare    *)
(*          no constraint beyond the keys, so no commit is refused.        *)
(* SpecReg  register requests are interleaved in the same way; the store   *)
(*          refuses a row that breaks a unique constraint of the models.   *)
(* SpecReview post_review requests are interleaved, from a store that      *)
(*          holds a completed project; the commit of the review and the    *)
(*          commit of the score are two steps.                             *)
(* SpecStale as SpecReview, from a store that holds two completed projects *)
(*          of one client and one freelancer.                              *)
(* SpecEdit create_project and update_project with bodies of every shape,  *)
(*          from a store that holds an assigned project.                   *)
(* SpecRank as Spec, from a store of a client, a freelancer and three      *)
(*          completed projects of theirs, where a user comes to hold       *)
(*          three reviews.                                                 *)
(*                                                                         *)
(* Primary keys are the 1-based positions in the tables (autoincrement,    *)
(* nothing is ever deleted by a route).  A ranking_score is kept in        *)
(* hundredths (4.67 is 467).  Request bodies are well formed: the keys a   *)
(* handler subscripts (data['rating'], data['amount'], ...) are present.   *)
(***************************************************************************)
EXTENDS Integers, Sequences, FiniteSets, TLC

VARIABLES users, projects, bids, reviews, reqs, last

vars == <<users, projects, bids, reviews, reqs, last>>
store == <<users, projects, bids, reviews>>

(* ------------------------------ bounds --------------------------------- *)
MaxProjects == 1
MaxBids == 2
MaxReviews == 3

(* ------------------------------ inputs --------------------------------- *)
\* the (username, email) pairs of the registration requests: two fresh
\* identities, and one that shares its username with the first and its email
\* with the second; they bound the users table at two rows
RegInputs == {<<"alice", "alice@x">>, <<"bob", "bob@x">>, <<"alice", "bob@x">>}
\* the rating of a post_review body: two ratings of the 1 to 5 scale and one
\* above it
RatingInputs == {4, 5, 6}
ScaleRatings == RatingInputs \cap 1..5
\* "absent" is a request body without the key
StatusInputs == {"absent", "open", "in_progress", "completed", "cancelled"}
Slots == {"r1", "r2"}

\* freelancer_id is nullable; None is written 0 (no primary key is 0)
NULL == 0

\* the JSON body of a create_project or update_project request, by the keys the
\* two handlers and the Project columns know; a key the body does not hold is
\* written "absent", NoBudget for the budget and NULL for the two user ids
NoBudget == 0

Body(title, description, budget, status, client_id, freelancer_id) ==
    [title |-> title, description |-> description, budget |-> budget,
     status |-> status, client_id |-> client_id, freelancer_id |-> freelancer_id]

EmptyBody == Body("absent", "absent", NoBudget, "absent", NULL, NULL)

\* bodies of update_project that hold at most the status
StatusBodies == {[EmptyBody EXCEPT !.status = s] : s \in StatusInputs}

\* bodies of update_project that hold any subset of the four editable keys,
\* and some of them a freelancer_id
EditBodies ==
    {Body(t, d, b, st, NULL, f) :
        t \in {"absent", "t2"}, d \in {"absent", "d2"}, b \in {NoBudget, 200},
        st \in {"absent", "completed"}, f \in {NULL, 1}}

\* bodies of create_project: the three keys the handler subscripts, and some
\* with a status, a client_id and a freelancer_id besides
CreateBodies ==
    {Body("t1", "d1", 100, "absent", NULL, NULL),
     Body("t1", "d1", 100, "completed", 2, 2)}

FirstBody == Body("t1", "d1", 100, "absent", NULL, NULL)

\* the JSON body of a profile update, by the two keys the handler reads and
\* the ranking_score column; a body without the ranking_score key holds NoScore
NoScore == 0

ProfileBody(bio, skills, ranking_score) ==
    [bio |-> bio, skills |-> skills, ranking_score |-> ranking_score]

\* a body with a bio and skills, and one that holds a ranking_score only
ProfileBodies ==
    {ProfileBody("b2", "s2", NoScore), ProfileBody("absent", "absent", 500)}

UserIds == 1..Len(users)
ProjectArgs == 1..MaxProjects
BidArgs == 0..MaxBids

(* ------------------------------ tables --------------------------------- *)
NewUser(username, email, is_freelancer) ==
    [username |-> username, email |-> email,
     is_freelancer |-> is_freelancer, bio |-> "none", skills |-> "none",
     ranking_score |-> 0]

\* the slip of taking every column from the body
NewProjectFromBody(data, client_id) ==
    [title |-> data.title, description |-> data.description,
     budget |-> data.budget,
     client_id |-> IF data.client_id = NULL THEN client_id ELSE data.client_id,
     freelancer_id |-> data.freelancer_id,
     status |-> IF data.status = "absent" THEN "open" ELSE data.status]

\* Project(title=, description=, budget=, client_id=): status takes the column
\* default and freelancer_id stays None
NewProject(data, client_id) ==
    [title |-> data.title, description |-> data.description,
     budget |-> data.budget,
     client_id |-> client_id, freelancer_id |-> NULL, status |-> "open"]

NewBid(project_id, freelancer_id) ==
    [project_id |-> project_id, freelancer_id |-> freelancer_id]

NewReview(rating, project_id, reviewer_id, reviewee_id) ==
    [rating |-> rating, project_id |-> project_id,
     reviewer_id |-> reviewer_id, reviewee_id |-> reviewee_id]

Idle ==
    [op |-> "idle", pc |-> "idle", actor |-> 0, pid |-> 0, arg |-> 0,
     username |-> "", email |-> "", is_freelancer |-> FALSE,
     reviewee_id |-> 0, score |-> 0]

Out(code, msg) == [code |-> code, msg |-> msg]

Succeeded(out) == out.code \in {200, 201}

\* the response to the request that completed last: who asked what of which
\* project and how it ended; bid is the bid_id of an accept_bid request or the
\* bid a place_bid created, status the status an update_project wrote, data
\* the body of a create_project or of an update_project that was let through,
\* username and email those of a register request, ranking_score the
\* ranking_score key of the body of a profile update
Resp(op, actor, pid, out) ==
    [op |-> op, actor |-> actor, pid |-> pid, bid |-> 0, status |-> "",
     data |-> EmptyBody, username |-> "", email |-> "",
     ranking_score |-> NoScore, code |-> out.code, msg |-> out.msg]

RegisterResp(username, email, id, out) ==
    [Resp("register", id, 0, out) EXCEPT !.username = username, !.email = email]

(* ------------------------- ranking calculator -------------------------- *)
RECURSIVE SumRatings(_, _, _)
SumRatings(rs, uid, i) ==
    IF i = 0 THEN 0
    ELSE SumRatings(rs, uid, i - 1)
         + (IF rs[i].reviewee_id = uid THEN rs[i].rating ELSE 0)

ReviewsReceived(rs, uid) == {i \in 1..Len(rs) : rs[i].reviewee_id = uid}

\* round(total / n, 2) in hundredths: nearest, a tie going to the even digit
Round2(total, n) ==
    LET q == (total * 100) \div n
        r == (total * 100) % n
    IN  IF 2 * r < n THEN q
        ELSE IF 2 * r > n THEN q + 1
        ELSE IF q % 2 = 0 THEN q ELSE q + 1

\* the slip of dividing by the size of the whole table
RankingOfAllReviews(rs, uid) ==
    LET n == Cardinality(ReviewsReceived(rs, uid))
    IN  IF n = 0 THEN 0 ELSE Round2(SumRatings(rs, uid, Len(rs)), Len(rs))

RankingOf(rs, uid) ==
    LET n == Cardinality(ReviewsReceived(rs, uid))
    IN  IF n = 0 THEN 0 ELSE Round2(SumRatings(rs, uid, Len(rs)), n)

update_user_ranking(us, rs, uid) ==
    IF uid \notin 1..Len(us) THEN us
    ELSE [us EXCEPT ![uid].ranking_score = RankingOf(rs, uid)]

(* ------------------------------ register ------------------------------- *)
UserExists(username, email) ==
    \E i \in UserIds : users[i].email = email \/ users[i].username = username

Register(username, email, is_freelancer) ==
    /\ IF UserExists(username, email)
       THEN /\ last' = RegisterResp(username, email, 0, Out(400, "exists"))
            /\ UNCHANGED users
       ELSE /\ users' = Append(users, NewUser(username, email, is_freelancer))
            /\ last' = RegisterResp(username, email, Len(users) + 1, Out(201, "ok"))
    /\ UNCHANGED <<projects, bids, reviews, reqs>>

(* ----------------------------- my_profile ------------------------------ *)
\* the slip of taking the score from the body as well
UpdatedProfileWithScore(u, data) ==
    [u EXCEPT
        !.bio = IF data.bio = "absent" THEN u.bio ELSE data.bio,
        !.skills = IF data.skills = "absent" THEN u.skills ELSE data.skills,
        !.ranking_score = IF data.ranking_score = NoScore THEN u.ranking_score
                          ELSE data.ranking_score]

\* lines 96-97: user.key = data.get(key, user.key) for bio and skills
UpdatedProfile(u, data) ==
    [u EXCEPT
        !.bio = IF data.bio = "absent" THEN u.bio ELSE data.bio,
        !.skills = IF data.skills = "absent" THEN u.skills ELSE data.skills]

\* the PUT of my_profile; the GET writes nothing
UpdateProfile(actor, data) ==
    /\ users' = [users EXCEPT ![actor] = UpdatedProfile(users[actor], data)]
    /\ last' = [Resp("my_profile", actor, 0, Out(200, "ok")) EXCEPT
                  !.ranking_score = data.ranking_score]
    /\ UNCHANGED <<projects, bids, reviews, reqs>>

(* --------------------------- create_project ---------------------------- *)
CreateProject(actor, data) ==
    /\ projects' = Append(projects, NewProject(data, actor))
    /\ last' = [Resp("create_project", actor, Len(projects) + 1, Out(201, "ok"))
                  EXCEPT !.data = data]
    /\ UNCHANGED <<users, bids, reviews, reqs>>

(* --------------------------- update_project ---------------------------- *)
UpdateProjectOut(actor, pid) ==
    IF pid \notin 1..Len(projects) THEN Out(404, "not found")
    ELSE IF projects[pid].client_id # actor THEN Out(403, "not authorized")
    ELSE Out(200, "ok")

\* data.get('status', project.status)
UpdatedStatus(p, status) == IF status = "absent" THEN p.status ELSE status

\* the slip of writing every key of the body, absent or not
UpdatedProjectWhole(p, data) ==
    [p EXCEPT !.title = data.title, !.description = data.description,
              !.budget = data.budget, !.status = UpdatedStatus(p, data.status)]

\* lines 149-152: project.key = data.get(key, project.key) for the four keys
UpdatedProject(p, data) ==
    [p EXCEPT
        !.title = IF data.title = "absent" THEN p.title ELSE data.title,
        !.description = IF data.description = "absent" THEN p.description
                        ELSE data.description,
        !.budget = IF data.budget = NoBudget THEN p.budget ELSE data.budget,
        !.status = UpdatedStatus(p, data.status)]

UpdateProject(actor, pid, data) ==
    LET out == UpdateProjectOut(actor, pid)
    IN  /\ IF out.code = 200
           THEN projects' = [projects EXCEPT ![pid] = UpdatedProject(projects[pid], data)]
           ELSE UNCHANGED projects
        /\ last' = [Resp("update_project", actor, pid, out) EXCEPT
                      !.status = IF Succeeded(out) THEN data.status ELSE "",
                      !.data = IF Succeeded(out) THEN data ELSE EmptyBody]
        /\ UNCHANGED <<users, bids, reviews, reqs>>

(* ----------------------------- accept_bid ------------------------------ *)
\* the slip of leaving out the status check
AcceptBidPreNoStatus(actor, pid) ==
    IF pid \notin 1..Len(projects) THEN Out(404, "not found")
    ELSE IF projects[pid].client_id # actor THEN Out(403, "not authorized")
    ELSE Out(0, "continue")

\* lines 160-167: the project is loaded, then the owner and status checks
AcceptBidPre(actor, pid) ==
    IF pid \notin 1..Len(projects) THEN Out(404, "not found")
    ELSE IF projects[pid].client_id # actor THEN Out(403, "not authorized")
    ELSE IF projects[pid].status # "open" THEN Out(400, "not open")
    ELSE Out(0, "continue")

\* the slip of accepting a bid of any project
AcceptBidLoadAnyProject(pid, bid_id) ==
    IF bid_id \notin 1..Len(bids) THEN Out(404, "not found")
    ELSE Out(200, "ok")

\* lines 169-174: the bid is loaded and compared with the project
AcceptBidLoad(pid, bid_id) ==
    IF bid_id \notin 1..Len(bids) THEN Out(404, "not found")
    ELSE IF bids[bid_id].project_id # pid THEN Out(400, "wrong project")
    ELSE Out(200, "ok")

AcceptBidOut(actor, pid, bid_id) ==
    LET pre == AcceptBidPre(actor, pid)
    IN  IF pre.code # 0 THEN pre ELSE AcceptBidLoad(pid, bid_id)

\* the slip of committing between the two assignments
AcceptedProjectFreelancerOnly(p, freelancer_id) ==
    [p EXCEPT !.freelancer_id = freelancer_id]

\* lines 176-179: both assignments reach the store with the one commit
AcceptedProject(p, freelancer_id) ==
    [p EXCEPT !.freelancer_id = freelancer_id, !.status = "in_progress"]

AcceptBid(actor, pid, bid_id) ==
    LET out == AcceptBidOut(actor, pid, bid_id)
    IN  /\ IF out.code = 200
           THEN projects' = [projects EXCEPT
                  ![pid] = AcceptedProject(projects[pid], bids[bid_id].freelancer_id)]
           ELSE UNCHANGED projects
        /\ last' = [Resp("accept_bid", actor, pid, out) EXCEPT !.bid = bid_id]
        /\ UNCHANGED <<users, bids, reviews, reqs>>

(* ------------------------------ place_bid ------------------------------ *)
\* the slip of leaving out the role check
PlaceBidPreAnyUser(actor, pid) ==
    IF pid \notin 1..Len(projects) THEN Out(404, "not found")
    ELSE IF projects[pid].status # "open" THEN Out(400, "not open")
    ELSE Out(0, "continue")

\* lines 187-194: user and project are loaded, then the role and status checks
PlaceBidPre(actor, pid) ==
    IF pid \notin 1..Len(projects) THEN Out(404, "not found")
    ELSE IF ~users[actor].is_freelancer THEN Out(403, "not freelancer")
    ELSE IF projects[pid].status # "open" THEN Out(400, "not open")
    ELSE Out(0, "continue")

\* the slip of filtering the freelancer column by the project id
ExistingBidWrongColumn(pid, uid) ==
    \E i \in 1..Len(bids) : bids[i].project_id = pid /\ bids[i].freelancer_id = pid

\* line 197: Bid.query.filter_by(project_id=id, freelancer_id=user.id).first()
ExistingBid(pid, uid) ==
    \E i \in 1..Len(bids) : bids[i].project_id = pid /\ bids[i].freelancer_id = uid

PlaceBidOut(actor, pid) ==
    LET pre == PlaceBidPre(actor, pid)
    IN  IF pre.code # 0 THEN pre
        ELSE IF ExistingBid(pid, actor) THEN Out(400, "duplicate")
        ELSE Out(201, "ok")

PlaceBid(actor, pid) ==
    LET out == PlaceBidOut(actor, pid)
    IN  /\ IF out.code = 201
           THEN /\ Len(bids) < MaxBids
                /\ bids' = Append(bids, NewBid(pid, actor))
           ELSE UNCHANGED bids
        /\ last' = [Resp("place_bid", actor, pid, out) EXCEPT
                      !.bid = IF Succeeded(out) THEN Len(bids) + 1 ELSE 0]
        /\ UNCHANGED <<users, projects, reviews, reqs>>

(* ----------------------------- post_review ----------------------------- *)
\* lines 225-231: the counterpart of the actor, or -1 when the actor is no party
Reviewee(p, actor) ==
    IF actor = p.client_id THEN p.freelancer_id
    ELSE IF actor = p.freelancer_id THEN p.client_id
    ELSE -1

\* the slip of filtering the reviewee column
ExistingReviewOfReviewee(pid, uid) ==
    \E i \in 1..Len(reviews) :
        reviews[i].project_id = pid /\ reviews[i].reviewee_id = uid

\* line 237: Review.query.filter_by(project_id=id, reviewer_id=user.id).first()
ExistingReview(pid, uid) ==
    \E i \in 1..Len(reviews) :
        reviews[i].project_id = pid /\ reviews[i].reviewer_id = uid

\* the slip of leaving out the status check
PostReviewOutNoStatus(actor, pid) ==
    IF pid \notin 1..Len(projects) THEN Out(404, "not found")
    ELSE IF Reviewee(projects[pid], actor) = -1 THEN Out(403, "not a party")
    ELSE IF Reviewee(projects[pid], actor) = NULL THEN Out(400, "no freelancer")
    ELSE IF ExistingReview(pid, actor) THEN Out(400, "duplicate")
    ELSE Out(201, "ok")

PostReviewOut(actor, pid) ==
    IF pid \notin 1..Len(projects) THEN Out(404, "not found")
    ELSE IF projects[pid].status # "completed" THEN Out(400, "not completed")
    ELSE IF Reviewee(projects[pid], actor) = -1 THEN Out(403, "not a party")
    ELSE IF Reviewee(projects[pid], actor) = NULL THEN Out(400, "no freelancer")
    ELSE IF ExistingReview(pid, actor) THEN Out(400, "duplicate")
    ELSE Out(201, "ok")

PostReview(actor, pid, rating) ==
    LET out == PostReviewOut(actor, pid)
        reviewee_id == Reviewee(projects[pid], actor)
        added == Append(reviews, NewReview(rating, pid, actor, reviewee_id))
    IN  /\ IF out.code = 201
           THEN /\ Len(reviews) < MaxReviews
                /\ reviews' = added
                /\ users' = update_user_ranking(users, added, reviewee_id)
           ELSE UNCHANGED <<users, reviews>>
        /\ last' = Resp("post_review", actor, pid, out)
        /\ UNCHANGED <<projects, bids, reqs>>

(* ------------------- interleaved place_bid and accept_bid --------------- *)
\* A request in flight holds one slot.  A handler that returns gives the slot
\* back and leaves its response in last.
InFlight(op, pc, actor, pid, arg) ==
    [Idle EXCEPT !.op = op, !.pc = pc, !.actor = actor, !.pid = pid, !.arg = arg]

\* lines 187-194 of place_bid
PlaceBidBegin(s, actor, pid) ==
    LET out == PlaceBidPre(actor, pid)
    IN  /\ reqs[s] = Idle
        /\ IF out.code # 0
           THEN /\ last' = Resp("place_bid", actor, pid, out)
                /\ UNCHANGED reqs
           ELSE /\ reqs' = [reqs EXCEPT
                              ![s] = InFlight("place_bid", "check", actor, pid, 0)]
                /\ UNCHANGED last
        /\ UNCHANGED store

\* lines 197-199 of place_bid
PlaceBidCheck(s) ==
    LET r == reqs[s]
    IN  /\ r.op = "place_bid" /\ r.pc = "check"
        /\ IF ExistingBid(r.pid, r.actor)
           THEN /\ last' = Resp("place_bid", r.actor, r.pid, Out(400, "duplicate"))
                /\ reqs' = [reqs EXCEPT ![s] = Idle]
           ELSE /\ reqs' = [reqs EXCEPT ![s].pc = "commit"]
                /\ UNCHANGED last
        /\ UNCHANGED store

\* lines 201-211 of place_bid: the table has no constraint that could refuse
\* the row
PlaceBidCommit(s) ==
    LET r == reqs[s]
    IN  /\ r.op = "place_bid" /\ r.pc = "commit"
        /\ Len(bids) < MaxBids
        /\ bids' = Append(bids, NewBid(r.pid, r.actor))
        /\ last' = [Resp("place_bid", r.actor, r.pid, Out(201, "ok")) EXCEPT
                      !.bid = Len(bids) + 1]
        /\ reqs' = [reqs EXCEPT ![s] = Idle]
        /\ UNCHANGED <<users, projects, reviews>>

\* lines 160-167 of accept_bid
AcceptBidBegin(s, actor, pid, bid_id) ==
    LET out == AcceptBidPre(actor, pid)
    IN  /\ reqs[s] = Idle
        /\ IF out.code # 0
           THEN /\ last' = [Resp("accept_bid", actor, pid, out) EXCEPT !.bid = bid_id]
                /\ UNCHANGED reqs
           ELSE /\ reqs' = [reqs EXCEPT
                              ![s] = InFlight("accept_bid", "lookup", actor, pid, bid_id)]
                /\ UNCHANGED last
        /\ UNCHANGED store

\* lines 169-177 of accept_bid: the bid is fetched, and the two assignments
\* stay in the session of the request
AcceptBidLookup(s) ==
    LET r == reqs[s]
        out == AcceptBidLoad(r.pid, r.arg)
    IN  /\ r.op = "accept_bid" /\ r.pc = "lookup"
        /\ IF out.code # 200
           THEN /\ last' = [Resp("accept_bid", r.actor, r.pid, out) EXCEPT !.bid = r.arg]
                /\ reqs' = [reqs EXCEPT ![s] = Idle]
           ELSE /\ reqs' = [reqs EXCEPT ![s].pc = "commit"]
                /\ UNCHANGED last
        /\ UNCHANGED store

\* lines 179-180 of accept_bid
AcceptBidCommit(s) ==
    LET r == reqs[s]
    IN  /\ r.op = "accept_bid" /\ r.pc = "commit"
        /\ projects' = [projects EXCEPT
              ![r.pid] = AcceptedProject(projects[r.pid], bids[r.arg].freelancer_id)]
        /\ last' = [Resp("accept_bid", r.actor, r.pid, Out(200, "ok")) EXCEPT
                      !.bid = r.arg]
        /\ reqs' = [reqs EXCEPT ![s] = Idle]
        /\ UNCHANGED <<users, bids, reviews>>

(* ------------------------- interleaved register ------------------------ *)
\* lines 46-51 of register: the two queries for a user of that email or name
RegisterBegin(s, username, email, is_freelancer) ==
    /\ reqs[s] = Idle
    /\ IF UserExists(username, email)
       THEN /\ last' = RegisterResp(username, email, 0, Out(400, "exists"))
            /\ UNCHANGED reqs
       ELSE /\ reqs' = [reqs EXCEPT
                          ![s] = [InFlight("register", "commit", 0, 0, 0) EXCEPT
                                    !.username = username, !.email = email,
                                    !.is_freelancer = is_freelancer]]
            /\ UNCHANGED last
    /\ UNCHANGED store

\* the slip of declaring the two columns without unique=True
NoUniqueViolation(username, email) == FALSE

\* username and email are declared unique=True: the store refuses a row whose
\* username or email a committed row holds
UniqueViolation(username, email) ==
    \E i \in UserIds : users[i].username = username \/ users[i].email = email

\* lines 53-63 of register: the insert is committed, or refused by the store;
\* the handler does not catch the refusal, which is answered 500
RegisterCommit(s) ==
    LET r == reqs[s]
    IN  /\ r.op = "register" /\ r.pc = "commit"
        /\ IF UniqueViolation(r.username, r.email)
           THEN /\ last' = RegisterResp(r.username, r.email, 0, Out(500, "integrity"))
                /\ UNCHANGED users
           ELSE /\ users' = Append(users, NewUser(r.username, r.email, r.is_freelancer))
                /\ last' = RegisterResp(r.username, r.email, Len(users) + 1,
                                        Out(201, "ok"))
        /\ reqs' = [reqs EXCEPT ![s] = Idle]
        /\ UNCHANGED <<projects, bids, reviews>>

(* ----------------------- interleaved post_review ------------------------ *)
\* lines 218-234 of post_review: the project is loaded, then the status check
\* and the choice of the reviewee
PostReviewPre(actor, pid) ==
    IF pid \notin 1..Len(projects) THEN Out(404, "not found")
    ELSE IF projects[pid].status # "completed" THEN Out(400, "not completed")
    ELSE IF Reviewee(projects[pid], actor) = -1 THEN Out(403, "not a party")
    ELSE IF Reviewee(projects[pid], actor) = NULL THEN Out(400, "no freelancer")
    ELSE Out(0, "continue")

PostReviewBegin(s, actor, pid, rating) ==
    LET out == PostReviewPre(actor, pid)
    IN  /\ reqs[s] = Idle
        /\ IF out.code # 0
           THEN /\ last' = Resp("post_review", actor, pid, out)
                /\ UNCHANGED reqs
           ELSE /\ reqs' = [reqs EXCEPT
                              ![s] = [InFlight("post_review", "check", actor, pid, rating)
                                        EXCEPT !.reviewee_id =
                                                  Reviewee(projects[pid], actor)]]
                /\ UNCHANGED last
        /\ UNCHANGED store

\* lines 237-239 of post_review
PostReviewCheck(s) ==
    LET r == reqs[s]
    IN  /\ r.op = "post_review" /\ r.pc = "check"
        /\ IF ExistingReview(r.pid, r.actor)
           THEN /\ last' = Resp("post_review", r.actor, r.pid, Out(400, "duplicate"))
                /\ reqs' = [reqs EXCEPT ![s] = Idle]
           ELSE /\ reqs' = [reqs EXCEPT ![s].pc = "commit"]
                /\ UNCHANGED last
        /\ UNCHANGED store

\* lines 241-250 of post_review: the review is inserted and committed
PostReviewCommit(s) ==
    LET r == reqs[s]
    IN  /\ r.op = "post_review" /\ r.pc = "commit"
        /\ Len(reviews) < MaxReviews
        /\ reviews' = Append(reviews, NewReview(r.arg, r.pid, r.actor, r.reviewee_id))
        /\ reqs' = [reqs EXCEPT ![s].pc = "rank"]
        /\ UNCHANGED <<users, projects, bids, last>>

\* lines 29-38 of update_user_ranking, called at line 253: the reviews the
\* reviewee received are read and the score is computed
UpdateRankingRead(s) ==
    LET r == reqs[s]
    IN  /\ r.op = "post_review" /\ r.pc = "rank"
        /\ reqs' = [reqs EXCEPT ![s].pc = "rank_commit",
                                ![s].score = RankingOf(reviews, r.reviewee_id)]
        /\ UNCHANGED <<store, last>>

\* line 40 of update_user_ranking and line 255 of post_review: the score is
\* committed and the request answered
UpdateRankingCommit(s) ==
    LET r == reqs[s]
    IN  /\ r.op = "post_review" /\ r.pc = "rank_commit"
        /\ users' = [users EXCEPT ![r.reviewee_id].ranking_score = r.score]
        /\ last' = Resp("post_review", r.actor, r.pid, Out(201, "ok"))
        /\ reqs' = [reqs EXCEPT ![s] = Idle]
        /\ UNCHANGED <<projects, bids, reviews>>

(* --------------------------- specifications ---------------------------- *)
Init ==
    /\ users = <<>>
    /\ projects = <<>>
    /\ bids = <<>>
    /\ reviews = <<>>
    /\ reqs = [s \in Slots |-> Idle]
    /\ last = Resp("none", 0, 0, Out(0, "none"))

Next ==
    \/ \E r \in RegInputs, f \in BOOLEAN : Register(r[1], r[2], f)
    \/ \E a \in UserIds, d \in ProfileBodies : UpdateProfile(a, d)
    \/ \E a \in UserIds, d \in CreateBodies :
          Len(projects) < MaxProjects /\ CreateProject(a, d)
    \/ \E a \in UserIds, p \in ProjectArgs, d \in StatusBodies : UpdateProject(a, p, d)
    \/ \E a \in UserIds, p \in ProjectArgs, b \in BidArgs : AcceptBid(a, p, b)
    \/ \E a \in UserIds, p \in ProjectArgs : PlaceBid(a, p)
    \/ \E a \in UserIds, p \in ProjectArgs, r \in RatingInputs : PostReview(a, p, r)

Spec == Init /\ [][Next]_vars

\* two freelancers are registered and the first has created a project
InitConc ==
    /\ users = <<NewUser("alice", "alice@x", TRUE), NewUser("bob", "bob@x", TRUE)>>
    /\ projects = <<NewProject(FirstBody, 1)>>
    /\ bids = <<>>
    /\ reviews = <<>>
    /\ reqs = [s \in Slots |-> Idle]
    /\ last = [Resp("create_project", 1, 1, Out(201, "ok")) EXCEPT !.data = FirstBody]

NextConc ==
    \/ \E s \in Slots, a \in UserIds, p \in ProjectArgs : PlaceBidBegin(s, a, p)
    \/ \E s \in Slots : PlaceBidCheck(s)
    \/ \E s \in Slots : PlaceBidCommit(s)
    \/ \E s \in Slots, a \in UserIds, p \in ProjectArgs, b \in BidArgs :
          AcceptBidBegin(s, a, p, b)
    \/ \E s \in Slots : AcceptBidLookup(s)
    \/ \E s \in Slots : AcceptBidCommit(s)
    \/ \E a \in UserIds, p \in ProjectArgs, d \in StatusBodies : UpdateProject(a, p, d)

SpecConc == InitConc /\ [][NextConc]_vars

\* a client and a freelancer with three projects of the client, each bid on
\* by the freelancer, accepted and completed
InitRank ==
    /\ users = <<NewUser("alice", "alice@x", FALSE), NewUser("bob", "bob@x", TRUE)>>
    /\ projects = [p \in 1..3 |->
                      [AcceptedProject(NewProject(FirstBody, 1), 2) EXCEPT !.status = "completed"]]
    /\ bids = [p \in 1..3 |-> NewBid(p, 2)]
    /\ reviews = <<>>
    /\ reqs = [s \in Slots |-> Idle]
    /\ last = [Resp("update_project", 1, 3, Out(200, "ok")) EXCEPT
                  !.status = "completed",
                  !.data = [EmptyBody EXCEPT !.status = "completed"]]

\* the requests of the two parties, one at a time: reviews of any of the
\* projects with ratings of the scale, and the other routes on the projects of ProjectArgs (the projects
\* table is at its bound, so no project is created)
NextRank ==
    \/ \E r \in RegInputs, f \in BOOLEAN : Register(r[1], r[2], f)
    \/ \E a \in UserIds, p \in ProjectArgs, d \in StatusBodies : UpdateProject(a, p, d)
    \/ \E a \in UserIds, p \in ProjectArgs, b \in BidArgs : AcceptBid(a, p, b)
    \/ \E a \in UserIds, p \in ProjectArgs : PlaceBid(a, p)
    \/ \E a \in UserIds, p \in 1..Len(projects), r \in ScaleRatings : PostReview(a, p, r)

SpecRank == InitRank /\ [][NextRank]_vars

\* register requests interleaved, from the empty store
NextReg ==
    \/ \E s \in Slots, r \in RegInputs, f \in BOOLEAN : RegisterBegin(s, r[1], r[2], f)
    \/ \E s \in Slots : RegisterCommit(s)

SpecReg == Init /\ [][NextReg]_vars

\* a client and a freelancer whose project has been completed
InitReview ==
    /\ users = <<NewUser("alice", "alice@x", FALSE), NewUser("bob", "bob@x", TRUE)>>
    /\ projects = <<[AcceptedProject(NewProject(FirstBody, 1), 2) EXCEPT
                        !.status = "completed"]>>
    /\ bids = <<NewBid(1, 2)>>
    /\ reviews = <<>>
    /\ reqs = [s \in Slots |-> Idle]
    /\ last = [Resp("update_project", 1, 1, Out(200, "ok")) EXCEPT
                  !.status = "completed",
                  !.data = [EmptyBody EXCEPT !.status = "completed"]]

\* post_review requests interleaved
NextReview ==
    \/ \E s \in Slots, a \in UserIds, p \in ProjectArgs, r \in ScaleRatings :
          PostReviewBegin(s, a, p, r)
    \/ \E s \in Slots : PostReviewCheck(s)
    \/ \E s \in Slots : PostReviewCommit(s)
    \/ \E s \in Slots : UpdateRankingRead(s)
    \/ \E s \in Slots : UpdateRankingCommit(s)

SpecReview == InitReview /\ [][NextReview]_vars

\* a client and a freelancer with two completed projects of theirs
InitStale ==
    /\ users = <<NewUser("alice", "alice@x", FALSE), NewUser("bob", "bob@x", TRUE)>>
    /\ projects = [p \in 1..2 |->
                      [AcceptedProject(NewProject(FirstBody, 1), 2) EXCEPT
                          !.status = "completed"]]
    /\ bids = [p \in 1..2 |-> NewBid(p, 2)]
    /\ reviews = <<>>
    /\ reqs = [s \in Slots |-> Idle]
    /\ last = [Resp("update_project", 1, 2, Out(200, "ok")) EXCEPT
                  !.status = "completed",
                  !.data = [EmptyBody EXCEPT !.status = "completed"]]

\* post_review requests on either project, interleaved
NextStale ==
    \/ \E s \in Slots, a \in UserIds, p \in 1..Len(projects), r \in ScaleRatings :
          PostReviewBegin(s, a, p, r)
    \/ \E s \in Slots : PostReviewCheck(s)
    \/ \E s \in Slots : PostReviewCommit(s)
    \/ \E s \in Slots : UpdateRankingRead(s)
    \/ \E s \in Slots : UpdateRankingCommit(s)

SpecStale == InitStale /\ [][NextStale]_vars

\* a client and a freelancer, and a project of the client whose bid by the
\* freelancer has been accepted
InitEdit ==
    /\ users = <<NewUser("alice", "alice@x", FALSE), NewUser("bob", "bob@x", TRUE)>>
    /\ projects = <<AcceptedProject(NewProject(FirstBody, 1), 2)>>
    /\ bids = <<NewBid(1, 2)>>
    /\ reviews = <<>>
    /\ reqs = [s \in Slots |-> Idle]
    /\ last = [Resp("accept_bid", 1, 1, Out(200, "ok")) EXCEPT !.bid = 1]

\* projects are created beside the first, up to MaxProjects of them, and
\* edited with bodies of every shape
NextEdit ==
    \/ \E a \in UserIds, d \in CreateBodies :
          Len(projects) < 1 + MaxProjects /\ CreateProject(a, d)
    \/ \E a \in UserIds, p \in 1..(1 + MaxProjects), d \in EditBodies :
          UpdateProject(a, p, d)

SpecEdit == InitEdit /\ [][NextEdit]_vars

(* ======================= properties of the requests ==================== *)
ProjectIds == 1..Len(projects)

Abs(x) == IF x < 0 THEN -x ELSE x

HasBid(pid, uid) ==
    \E i \in 1..Len(bids) : bids[i].project_id = pid /\ bids[i].freelancer_id = uid

HasReviewed(pid, uid) ==
    \E i \in 1..Len(reviews) :
        reviews[i].project_id = pid /\ reviews[i].reviewer_id = uid

StoreUnchanged == UNCHANGED <<users, projects, bids, reviews>>

\* C1: after every request, each user's ranking_score is the hundredth nearest
\* to the mean of the ratings of the reviews the user received, and 0 when the
\* user received none.
C1_RankingIsRoundedMean ==
    \A u \in UserIds :
        LET n == Cardinality(ReviewsReceived(reviews, u))
            total == SumRatings(reviews, u, Len(reviews))
            score == users[u].ranking_score
        IN  IF n = 0 THEN score = 0
            ELSE 2 * Abs(score * n - 100 * total) <= n

\* a review was just posted and its reviewee now holds three reviews, whose
\* mean has no exact hundredth (13/3 or 14/3)
C1_Witness ==
    /\ last.op = "post_review" /\ last.code = 201
    /\ \E u \in UserIds :
          /\ Cardinality(ReviewsReceived(reviews, u)) = 3
          /\ users[u].ranking_score \in {433, 467}
          /\ reviews[Len(reviews)].reviewee_id = u

UniqueBids ==
    \A i, j \in 1..Len(bids) :
        (bids[i].project_id = bids[j].project_id
            /\ bids[i].freelancer_id = bids[j].freelancer_id) => i = j

\* C2 as stated: no two bids share (project, freelancer), and a place_bid by a
\* freelancer who already has a bid on the project fails as a duplicate (400)
\* and creates no bid.
C2_Original ==
    [][/\ UniqueBids'
       /\ (last'.op = "place_bid" /\ last'.pid \in ProjectIds
                /\ HasBid(last'.pid, last'.actor))
            => (last'.code = 400 /\ last'.msg = "duplicate" /\ bids' = bids)]_vars

\* C2 as amended: no two bids share (project, freelancer), and a place_bid by a
\* freelancer who already has a bid on the project fails with 400 and creates
\* no bid; it fails as a duplicate while the project is open and as "not open"
\* once the project has left open.
C2_Amended ==
    [][/\ UniqueBids'
       /\ (last'.op = "place_bid" /\ last'.pid \in ProjectIds
                /\ HasBid(last'.pid, last'.actor))
            => /\ last'.code = 400
               /\ last'.msg = IF projects[last'.pid].status = "open"
                              THEN "duplicate" ELSE "not open"
               /\ bids' = bids]_vars

\* a second bid by the same freelancer on an open project was just refused
C2_Witness ==
    /\ last.op = "place_bid" /\ last.code = 400 /\ last.msg = "duplicate"
    /\ HasBid(last.pid, last.actor)
    /\ projects[last.pid].status = "open"

\* C3 as stated: with the steps of two place_bid requests interleaved, no two
\* bids share (project, freelancer).
C3_Original ==
    \A i \in 1..Len(bids) : \A j \in 1..Len(bids) :
        (bids[i].project_id = bids[j].project_id
            /\ bids[i].freelancer_id = bids[j].freelancer_id) => i = j

\* C4 as stated: a project's freelancer is null until a successful accept_bid
\* sets it to the accepted bid's freelancer; once set it never changes, and no
\* accept_bid succeeds on a project whose freelancer is set.
C4_Original ==
    [][\A p \in ProjectIds :
        /\ projects[p].freelancer_id # NULL
              => projects'[p].freelancer_id = projects[p].freelancer_id
        /\ projects'[p].freelancer_id # projects[p].freelancer_id
              => /\ last'.op = "accept_bid" /\ last'.code = 200 /\ last'.pid = p
                 /\ projects'[p].freelancer_id = bids[last'.bid].freelancer_id
        /\ (last'.op = "accept_bid" /\ last'.code = 200 /\ last'.pid = p)
              => projects[p].freelancer_id = NULL]_vars

\* C5 as stated: a project's freelancer is set if and only if its status is
\* in_progress or completed.
C5_Original ==
    \A p \in ProjectIds :
        (projects[p].freelancer_id # NULL)
            <=> (projects[p].status \in {"in_progress", "completed"})

\* C6 as stated: accept_bid on a project that is not open fails with the 400
\* "not open" outcome for any actor and any bid, and leaves the project's
\* status and freelancer unchanged.
C6_Original ==
    [][(last'.op = "accept_bid" /\ last'.pid \in ProjectIds
            /\ projects[last'.pid].status # "open")
        => (last'.code = 400 /\ last'.msg = "not open" /\ projects' = projects)]_vars

\* C6 as amended: accept_bid on a project that is not open always fails and
\* leaves the project's status and freelancer unchanged: with the 400 "not
\* open" outcome when the actor is the project's client, with 403 when the
\* actor is not.
C6_Amended ==
    [][(last'.op = "accept_bid" /\ last'.pid \in ProjectIds
            /\ projects[last'.pid].status # "open")
        => /\ IF projects[last'.pid].client_id = last'.actor
              THEN last'.code = 400 /\ last'.msg = "not open"
              ELSE last'.code = 403
           /\ projects' = projects]_vars

\* the client's accept_bid was just refused on a project that is not open
C6_Witness ==
    /\ last.op = "accept_bid" /\ last.code = 400 /\ last.msg = "not open"
    /\ projects[last.pid].status # "open"
    /\ projects[last.pid].client_id = last.actor
    /\ \E b \in 1..Len(bids) : bids[b].project_id = last.pid

\* C7: post_review on a project that is not completed fails with 400, post_review
\* on a completed project by an actor who is neither its client nor its
\* freelancer fails with 403, and neither writes anything: no review is created
\* and no ranking_score, project or bid changes.
C7_FailedReviewWritesNothing ==
    [][(last'.op = "post_review" /\ last'.pid \in ProjectIds
            /\ \/ projects[last'.pid].status # "completed"
               \/ last'.actor \notin {projects[last'.pid].client_id,
                                      projects[last'.pid].freelancer_id})
        => /\ last'.code = IF projects[last'.pid].status # "completed"
                           THEN 400 ELSE 403
           /\ StoreUnchanged]_vars

\* a user who is no party of a completed, assigned project was just refused
C7_Witness ==
    /\ last.op = "post_review" /\ last.code = 403
    /\ projects[last.pid].status = "completed"
    /\ projects[last.pid].freelancer_id # NULL
    /\ last.actor \notin {projects[last.pid].client_id,
                          projects[last.pid].freelancer_id}

UniqueReviews ==
    \A i, j \in 1..Len(reviews) :
        (reviews[i].project_id = reviews[j].project_id
            /\ reviews[i].reviewer_id = reviews[j].reviewer_id) => i = j

\* C8 as stated: no two reviews share (project, reviewer), and a post_review by
\* an actor who has already reviewed the project fails as a duplicate (400),
\* creates no review and changes no ranking_score.
C8_Original ==
    [][/\ UniqueReviews'
       /\ (last'.op = "post_review" /\ last'.pid \in ProjectIds
                /\ HasReviewed(last'.pid, last'.actor))
            => /\ last'.code = 400 /\ last'.msg = "duplicate"
               /\ reviews' = reviews /\ users' = users]_vars

\* C9 as stated: the reviewer of every review created is the client or the
\* freelancer of the project, the reviewee is the other of the two, and the
\* reviewee differs from the reviewer.
C9_Original ==
    [][Len(reviews') > Len(reviews)
        => LET r == reviews'[Len(reviews')]
               p == projects[r.project_id]
           IN  /\ r.reviewer_id \in {p.client_id, p.freelancer_id}
               /\ r.reviewee_id \in {p.client_id, p.freelancer_id} \ {r.reviewer_id}
               /\ r.reviewee_id # r.reviewer_id]_vars

\* the store from which the interleaved requests start is one the requests
\* reach from the empty store
InitConcReached ==
    /\ users = <<NewUser("alice", "alice@x", TRUE), NewUser("bob", "bob@x", TRUE)>>
    /\ projects = <<NewProject(FirstBody, 1)>>
    /\ bids = <<>> /\ reviews = <<>>
    /\ last = [Resp("create_project", 1, 1, Out(201, "ok")) EXCEPT !.data = FirstBody]

\* C10: with requests interleaved, the store never shows a project with a new
\* freelancer and a status other than in_progress; the commit of accept_bid
\* makes the bid's freelancer and in_progress visible in the same step, and no
\* earlier step of accept_bid changes the store.
C10_AcceptIsOneCommit ==
    [][\A p \in ProjectIds :
        /\ projects'[p].freelancer_id # projects[p].freelancer_id
              => projects'[p].status = "in_progress"
        /\ \A s \in Slots :
              (reqs[s].op = "accept_bid" /\ reqs[s].pid = p /\ reqs'[s] # reqs[s])
                => IF reqs[s].pc = "commit"
                   THEN /\ projects'[p].freelancer_id = bids[reqs[s].arg].freelancer_id
                        /\ projects'[p].freelancer_id # NULL
                        /\ projects'[p].status = "in_progress"
                        /\ last'.op = "accept_bid" /\ last'.code = 200
                   ELSE StoreUnchanged]_vars

\* an accept_bid has just committed while another request is in flight
C10_Witness ==
    /\ last.op = "accept_bid" /\ last.code = 200
    /\ \E s \in Slots : reqs[s] # Idle
    /\ projects[last.pid].freelancer_id = bids[last.bid].freelancer_id
    /\ projects[last.pid].status = "in_progress"

\* C11: accept_bid by an actor who is not the project's client fails with 403,
\* accept_bid by the client on an open project with a bid of another project
\* fails with 400, and in both cases no project, user, bid or review changes.
C11_AcceptBidRefusals ==
    [][(last'.op = "accept_bid" /\ last'.pid \in ProjectIds)
        => LET p == projects[last'.pid]
           IN  /\ p.client_id # last'.actor
                     => (last'.code = 403 /\ StoreUnchanged)
               /\ (/\ p.client_id = last'.actor
                    /\ p.status = "open"
                    /\ last'.bid \in 1..Len(bids)
                    /\ bids[last'.bid].project_id # last'.pid)
                     => (last'.code = 400 /\ StoreUnchanged)]_vars

\* the client was just refused a bid of another project on an open project
C11_Witness ==
    /\ last.op = "accept_bid" /\ last.code = 400
    /\ last.bid \in 1..Len(bids) /\ bids[last.bid].project_id # last.pid
    /\ projects[last.pid].status = "open"
    /\ projects[last.pid].client_id = last.actor

\* C12 as stated: every bid is created by a freelancer on a project that is
\* open when the bid is committed; a place_bid by a non-freelancer is answered
\* 403, a place_bid on a project that is not open is answered 400, and neither
\* creates a bid.
C12_Original ==
    [][/\ Len(bids') > Len(bids)
            => LET b == bids'[Len(bids')]
               IN  /\ users[b.freelancer_id].is_freelancer
                   /\ projects[b.project_id].status = "open"
       /\ (last'.op = "place_bid" /\ last' # last /\ last'.pid \in ProjectIds)
            => /\ ~users[last'.actor].is_freelancer
                     => (last'.code = 403 /\ bids' = bids)
               /\ (users[last'.actor].is_freelancer
                        /\ projects[last'.pid].status # "open")
                     => (last'.code = 400 /\ bids' = bids)]_vars

\* C13 as stated: a project's status changes only along open -> in_progress,
\* in_progress -> completed and in_progress -> cancelled.
C13_Original ==
    [][\A p \in ProjectIds :
        projects'[p].status # projects[p].status
            => <<projects[p].status, projects'[p].status>> \in
                  {<<"open", "in_progress">>, <<"in_progress", "completed">>,
                   <<"in_progress", "cancelled">>}]_vars

\* the value of a key after an update_project with the body data
Edited(old, given, absent) == IF given = absent THEN old ELSE given

\* C14: an update_project that succeeds was sent by the project's client and
\* gives title, description, budget and status the values of the body where
\* the body holds the key, leaving the other keys, the client and the
\* freelancer as they were; sent by another user it fails with 403 and the
\* project is unchanged.
C14_UpdateWritesGivenKeys ==
    [][(last'.op = "update_project" /\ last'.pid \in ProjectIds)
        => LET p == projects[last'.pid]
               q == projects'[last'.pid]
               d == last'.data
           IN  IF p.client_id = last'.actor
               THEN /\ last'.code = 200
                    /\ q.title = Edited(p.title, d.title, "absent")
                    /\ q.description = Edited(p.description, d.description, "absent")
                    /\ q.budget = Edited(p.budget, d.budget, NoBudget)
                    /\ q.status = Edited(p.status, d.status, "absent")
                    /\ q.client_id = p.client_id
                    /\ q.freelancer_id = p.freelancer_id
               ELSE last'.code = 403 /\ q = p]_vars

\* the client just changed the title and the budget of an assigned project
\* with a body that holds neither description nor status
C14_Witness ==
    /\ last.op = "update_project" /\ last.code = 200
    /\ last.data.title = "t2" /\ last.data.budget = 200
    /\ last.data.description = "absent" /\ last.data.status = "absent"
    /\ last.data.freelancer_id = 1
    /\ projects[last.pid] =
          [title |-> "t2", description |-> "d1", budget |-> 200, client_id |-> 1,
           freelancer_id |-> 2, status |-> "in_progress"]

\* C15: a project that create_project adds is open, has the actor as client
\* and no freelancer, whatever status, client_id or freelancer_id the body
\* holds, and the step changes no project that existed, no bid, no review and
\* no user.
C15_CreatedProjectIsOpen ==
    [][(last'.op = "create_project" /\ last' # last)
        => /\ Len(projects') = Len(projects) + 1
           /\ last'.pid = Len(projects') /\ last'.code = 201
           /\ projects'[last'.pid].status = "open"
           /\ projects'[last'.pid].client_id = last'.actor
           /\ projects'[last'.pid].freelancer_id = NULL
           /\ \A p \in ProjectIds : projects'[p] = projects[p]
           /\ UNCHANGED <<users, bids, reviews>>]_vars

\* a second project was just created by a body that asks for status completed
\* and for another client and a freelancer, beside an assigned project
C15_Witness ==
    /\ last.op = "create_project" /\ last.code = 201 /\ last.pid = 2
    /\ last.data.status = "completed"
    /\ last.data.client_id # last.actor /\ last.data.freelancer_id # NULL
    /\ projects[1].freelancer_id # NULL /\ Len(bids) > 0
    /\ projects[2].status = "open" /\ projects[2].freelancer_id = NULL
    /\ projects[2].client_id = last.actor

UniqueUsers ==
    \A i, j \in UserIds :
        (users[i].username = users[j].username \/ users[i].email = users[j].email)
            => i = j

Taken(username, email) ==
    \E i \in UserIds : users[i].username = username \/ users[i].email = email

C17_Original ==
    \A i \in 1..Len(reviews) : reviews[i].rating \in 1..5

\* the request that was just answered: op by actor on project pid
Answered(op, actor, pid) ==
    /\ last'.op = op /\ last'.actor = actor /\ last'.pid = pid
    /\ last' # last

\* C18: the lifecycle of a project P of client C with freelancer F goes as the
\* scenario says, step by step: on the open P a first bid of F is taken; C's
\* accept_bid of it gives P in_progress with freelancer F; C's update_project
\* with status completed completes P; C's review with rating 5, the first F
\* receives, gives F the score 5.0; F's review with rating 4, the first C
\* receives, gives C the score 4.0; and one more review by C on P fails as a
\* duplicate and changes no score.
C18_LifecycleScenario ==
    [][\A P \in ProjectIds :
        LET C == projects[P].client_id
            F == projects[P].freelancer_id
            new == reviews'[Len(reviews')]
        IN  /\ \A B \in UserIds :
                  (/\ Answered("place_bid", B, P)
                   /\ projects[P].status = "open" /\ users[B].is_freelancer
                   /\ ~HasBid(P, B))
                     => /\ last'.code = 201
                        /\ bids' = Append(bids, NewBid(P, B))
                        /\ projects'[P].status = "open"
            /\ (/\ Answered("accept_bid", C, P)
                 /\ projects[P].status = "open"
                 /\ last'.bid \in 1..Len(bids) /\ bids[last'.bid].project_id = P)
                  => /\ last'.code = 200
                     /\ projects'[P].status = "in_progress"
                     /\ projects'[P].freelancer_id = bids[last'.bid].freelancer_id
            /\ (/\ Answered("update_project", C, P)
                 /\ projects[P].status = "in_progress" /\ last'.status = "completed")
                  => /\ last'.code = 200
                     /\ projects'[P].status = "completed"
                     /\ projects'[P].freelancer_id = F
            /\ (/\ Answered("post_review", C, P)
                 /\ projects[P].status = "completed" /\ F # NULL /\ F # C
                 /\ ~HasReviewed(P, C) /\ ReviewsReceived(reviews, F) = {})
                  => /\ last'.code = 201
                     /\ Len(reviews') = Len(reviews) + 1
                     /\ new.reviewer_id = C /\ new.reviewee_id = F
                     /\ new.rating = 5 => users'[F].ranking_score = 500
                     /\ users'[C].ranking_score = users[C].ranking_score
            /\ (/\ Answered("post_review", F, P)
                 /\ projects[P].status = "completed" /\ F # NULL /\ F # C
                 /\ ~HasReviewed(P, F) /\ ReviewsReceived(reviews, C) = {})
                  => /\ last'.code = 201
                     /\ Len(reviews') = Len(reviews) + 1
                     /\ new.reviewer_id = F /\ new.reviewee_id = C
                     /\ new.rating = 4 => users'[C].ranking_score = 400
                     /\ users'[F].ranking_score = users[F].ranking_score
            /\ (/\ Answered("post_review", C, P)
                 /\ projects[P].status = "completed" /\ HasReviewed(P, C))
                  => /\ last'.code = 400 /\ last'.msg = "duplicate"
                     /\ reviews' = reviews /\ users' = users]_vars

\* the end of the scenario: the client's second review was just refused, the
\* freelancer holds 5.0 and the client 4.0
C18_Witness ==
    /\ last.op = "post_review" /\ last.code = 400 /\ last.msg = "duplicate"
    /\ last.actor = 1 /\ last.pid = 1
    /\ ~users[1].is_freelancer /\ users[2].is_freelancer
    /\ projects[1].client_id = 1 /\ projects[1].freelancer_id = 2
    /\ projects[1].status = "completed"
    /\ bids = <<NewBid(1, 2)>>
    /\ reviews = <<NewReview(5, 1, 1, 2), NewReview(4, 1, 2, 1)>>
    /\ users[2].ranking_score = 500 /\ users[1].ranking_score = 400

\* C19 as stated: in every state another request can see, the score of the
\* reviewee of every committed review is the rounded mean of the ratings of
\* all the reviews the reviewee received, that review among them.
C19_Original ==
    \A i \in 1..Len(reviews) :
        LET u == reviews[i].reviewee_id
            n == Cardinality(ReviewsReceived(reviews, u))
        IN  2 * Abs(users[u].ranking_score * n
                        - 100 * SumRatings(reviews, u, Len(reviews))) <= n

\* C20 as stated: of two interleaved accept_bid requests of the client that
\* name two different bids of one open project, at most one succeeds: a
\* request that reaches its commit after the other was answered 200, and finds
\* the project in_progress, is not answered 200 itself.
C20_Original ==
    [][\A s \in Slots :
        (/\ reqs[s].op = "accept_bid" /\ reqs[s].pc = "commit" /\ reqs'[s] = Idle
         /\ last.op = "accept_bid" /\ last.code = 200
         /\ last.pid = reqs[s].pid /\ last.bid # reqs[s].arg
         /\ bids[last.bid].freelancer_id # bids[reqs[s].arg].freelancer_id
         /\ projects[reqs[s].pid].status = "in_progress"
         /\ projects[reqs[s].pid].freelancer_id = bids[last.bid].freelancer_id)
            => /\ last'.code # 200
               /\ projects'[reqs[s].pid].freelancer_id = bids[last.bid].freelancer_id]_vars

\* every request has been answered
Quiescent == \A s \in Slots : reqs[s] = Idle

\* C21 as stated: once the interleaved post_review requests have completed,
\* and no reviewer has reviewed a project twice, the ranking_score of every
\* user who received reviews on two projects is the rounded mean of the
\* ratings of all the reviews the user received.
C21_Original ==
    (Quiescent /\ UniqueReviews)
        => \A u \in UserIds :
              LET got == ReviewsReceived(reviews, u)
                  total == SumRatings(reviews, u, Len(reviews))
              IN  (\E i, j \in got : reviews[i].project_id # reviews[j].project_id)
                    => 2 * Abs(users[u].ranking_score * Cardinality(got) - 100 * total)
                          <= Cardinality(got)

\* C22: after every request, the freelancer of a project, when set, is a user
\* with is_freelancer = true who has a bid on that project; and the freelancer
\* of a project changes only in a successful accept_bid on that project.
C22_FreelancerIsBidder ==
    [][/\ \A p \in 1..Len(projects') :
             LET f == projects'[p].freelancer_id
             IN  f # NULL
                   => /\ f \in 1..Len(users') /\ users'[f].is_freelancer
                      /\ \E b \in 1..Len(bids') :
                            bids'[b].project_id = p /\ bids'[b].freelancer_id = f
       /\ \A p \in ProjectIds :
             projects'[p].freelancer_id # projects[p].freelancer_id
                => (last'.op = "accept_bid" /\ last'.code = 200 /\ last'.pid = p)]_vars

\* the client, who is no freelancer, just accepted the bid of a freelancer
C22_Witness ==
    /\ last.op = "accept_bid" /\ last.code = 200
    /\ projects[last.pid].freelancer_id = bids[last.bid].freelancer_id
    /\ projects[last.pid].client_id = last.actor
    /\ ~users[last.actor].is_freelancer
    /\ users[projects[last.pid].freelancer_id].is_freelancer

\* C23: a user's ranking_score changes only in a post_review that succeeds
\* and has the user as reviewee; a user that register adds starts at 0; every
\* other request, every failed request, and post_review for the users other
\* than the reviewee, leave the ranking_score as it was.
C23_ScoreWrittenByReviewOnly ==
    [][/\ \A u \in UserIds :
             users'[u].ranking_score # users[u].ranking_score
                => /\ last'.op = "post_review" /\ last'.code = 201
                   /\ Len(reviews') = Len(reviews) + 1
                   /\ reviews'[Len(reviews')].reviewee_id = u
       /\ Len(users') > Len(users)
             => /\ last'.op = "register" /\ last'.code = 201
                /\ users'[Len(users')].ranking_score = 0]_vars

\* a user who holds a score just sent a profile update whose body holds a
\* ranking_score, and the score is the mean of the reviews as before
C23_Witness ==
    /\ last.op = "my_profile" /\ last.code = 200
    /\ last.ranking_score # NoScore
    /\ ReviewsReceived(reviews, last.actor) # {}
    /\ users[last.actor].ranking_score # last.ranking_score
    /\ users[last.actor].ranking_score = RankingOf(reviews, last.actor)
    /\ \E u \in UserIds : users[u].bio = "b2" /\ users[u].skills = "s2"
====
